---- MODULE Spec2Model ----
(***************************************************************************)
(* news-contrast-ai frontend: the analysis controller (AnalyzePage), the   *)
(* input component that drives it (InputBox), the remote client            *)
(* (ApiService), the toasts (useToasts, Toast, ToastContainer) and the     *)
(* loading and refreshing of StatusPage.                                   *)
(*                                                                         *)
(* JavaScript values are records tagged by "type".  A JavaScript string is *)
(* a sequence: user input is a sequence of characters, a message is a      *)
(* sequence of message fragments, and concatenation is \o.                 *)
(***************************************************************************)
EXTENDS Integers, Sequences, FiniteSets, Bags, TLC

\* ------------------------------------------------------------------ bounds

\* remote operations started in one run: analyzeContent invocations and
\* feedback clicks together
MaxOps == 3

\* addToast calls and close clicks together in one run of the toast
\* specification, and the time it runs for (ms)
MaxToastOps == 3
MaxTime == 600

\* analyzeContent invocations in one run of the specification of InputBox
MaxSubmits == 2

\* clicks of the Refresh button of StatusPage in one run
MaxRefresh == 2

\* analyzeContent invocations in one run of the specification with fairness
MaxFairOps == 2

\* the values Date.now() + Math.random() can take within one millisecond: the
\* sum is a double, which at the magnitude of Date.now() has few bits left for
\* the fraction
IdSteps == 2

\* --------------------------------------------------------- JavaScript values

Undefined == [type |-> "undefined"]
Null == [type |-> "null"]
JStr(s) == [type |-> "string", value |-> s]

\* A JSON object with the fields the frontend reads; an absent field is Undefined.
Obj(detail, ta, ua, label, summary) ==
    [type |-> "object", detail |-> detail, text_analysis |-> ta,
     url_analysis |-> ua, label |-> label, input_summary |-> summary]

\* JavaScript truthiness, for the values that occur here.
Truthy(v) ==
    CASE v.type = "string" -> v.value # <<>>
      [] v.type = "object" -> TRUE
      [] OTHER -> FALSE

\* a || b
Or(a, b) == IF Truthy(a) THEN a ELSE b

\* ------------------------------------------------------------------ strings

RECURSIVE TrimStart(_)
TrimStart(s) ==
    IF s # <<>> /\ Head(s) = " " THEN TrimStart(Tail(s)) ELSE s

RECURSIVE TrimEnd(_)
TrimEnd(s) ==
    IF s # <<>> /\ s[Len(s)] = " " THEN TrimEnd(SubSeq(s, 1, Len(s) - 1)) ELSE s

\* String.prototype.trim
Trim(s) == TrimEnd(TrimStart(s))

\* t occurs in s as a contiguous run (String.prototype.includes)
Includes(s, t) ==
    \E i \in 0..(Len(s) - Len(t)) : SubSeq(s, i + 1, i + Len(t)) = t

\* Values the user can put in the text area and in the URL field.
\* "x" stands for a letter, ":" ends a URL scheme.
TextInputs == { <<>>, <<" ", "x", " ">> }
UrlInputs == { <<" ">>, <<" ", "x">>, <<" ", "x", ":", "x">> }

\* isValidUrl: new URL(string) succeeds.  Without a base, the URL parser
\* strips surrounding whitespace and needs a scheme: letters, then ":".
isValidUrl(string) ==
    LET t == Trim(string)
    IN \E k \in 2..Len(t) : t[k] = ":" /\ \A j \in 1..(k - 1) : t[j] = "x"

\* ------------------------------------------------------------------ messages

MsgAnalyzing == <<"Analyzing content... This may take a moment.">>
MsgAnalysisDone == <<"Analysis completed successfully!">>
MsgAnalysisFailedDefault == <<"Analysis failed. Please try again.">>
MsgAnalysisFailedPrefix == <<"Analysis failed: ">>
MsgFeedbackThanks == <<"Thank you for your feedback! It will help improve our system.">>
MsgFeedbackFailed == <<"Failed to submit feedback. Please try again.">>
MsgEitherTextOrUrl == <<"Either text or URL must be provided">>
MsgFeedbackGeneric == <<"Failed to submit feedback">>

\* addToast's default duration, and the duration analyzeContent gives its error toast
DefaultDuration == 4000
AnalysisErrorDuration == 6000

\* ----------------------------------------------------- the remote service

\* What the browser reports for one fetch: a rejection (network-level failure),
\* or a response with a status and a body.  A body is a JSON value, or is not
\* JSON at all (BadJson), in which case response.json() rejects.
BadJson == [type |-> "badjson"]
MsgFailedToFetch == <<"Failed to fetch">>
MsgJsonSyntax == <<"Unexpected token < in JSON at position 0">>
MsgNullDetail == <<"Cannot read properties of null (reading 'detail')">>
MsgNullTextAnalysis == <<"Cannot read properties of null (reading 'text_analysis')">>

Rejected(message) == [kind |-> "rejected", message |-> message]
Response(ok, status, statusText, body) ==
    [kind |-> "response", ok |-> ok, status |-> status,
     statusText |-> statusText, body |-> body]

EmptyObject == Obj(Undefined, Undefined, Undefined, Undefined, Undefined)
TextAnalysis == Obj(Undefined, Undefined, Undefined, JStr(<<"FAKE">>), JStr(<<"text">>))
UrlAnalysis == Obj(Undefined, Undefined, Undefined, JStr(<<"UNVERIFIED">>), JStr(<<"url">>))
\* the payloads of spec §8 ({label: "REAL", ...}) and of the backend's two modes
PlainPayload == Obj(Undefined, Undefined, Undefined, JStr(<<"REAL">>), JStr(<<"plain">>))
TextPayload == Obj(Undefined, TextAnalysis, Undefined, Undefined, Undefined)
UrlPayload == Obj(Undefined, Null, UrlAnalysis, Undefined, Undefined)
BothPayload == Obj(Undefined, TextAnalysis, UrlAnalysis, Undefined, Undefined)
Payloads == { PlainPayload, TextPayload, UrlPayload, BothPayload }

ErrorBodies ==
    { Obj(JStr(<<"model unavailable">>), Undefined, Undefined, Undefined, Undefined),
      EmptyObject, BadJson, Null }

AnalyzeResponses ==
    { Rejected(MsgFailedToFetch) }
    \cup { Response(FALSE, <<"500">>, <<"Internal Server Error">>, b) : b \in ErrorBodies }
    \cup { Response(TRUE, <<"200">>, <<"OK">>, b) : b \in Payloads \cup { BadJson, Null } }

FeedbackResponses ==
    { Rejected(MsgFailedToFetch) }
    \cup { Response(FALSE, <<"500">>, <<"Internal Server Error">>, b) : b \in ErrorBodies }
    \cup { Response(TRUE, <<"200">>, <<"OK">>, b) : b \in { EmptyObject, BadJson } }

\* ------------------------------------------------------------- ApiService

\* The outcome of an async function: a returned value or a thrown Error.
Returned(v) == [threw |-> FALSE, value |-> v, message |-> <<>>]
Threw(message) == [threw |-> TRUE, value |-> Undefined, message |-> message]

\* a slip in the validation: it tests for absent fields, not for falsy ones
ApiRejectsOnlyAbsent(options) == options.text = Undefined /\ options.url = Undefined

\* api.js:13  if (!text && !url) throw ...
ApiRejectsOptions(options) == ~Truthy(options.text) /\ ~Truthy(options.url)

\* api.js:23-27  the JSON body of the POST to /analyze
ApiAnalyzeBody(options) ==
    [text |-> Or(options.text, Undefined), url |-> Or(options.url, Undefined),
     include_explanations |-> options.includeExplanations]

\* api.js:31  await response.json().catch(() => ({}))
ApiErrorData(body) == IF body = BadJson THEN EmptyObject ELSE body

\* api.js:30-36  what analyzeContent makes of the fetch outcome
ApiAnalyzeOutcome(r) ==
    IF r.kind = "rejected" THEN Threw(r.message)
    ELSE IF ~r.ok THEN
        LET errorData == ApiErrorData(r.body)
        IN IF errorData = Null THEN Threw(MsgNullDetail)
           ELSE IF Truthy(errorData.detail) THEN Threw(errorData.detail.value)
           ELSE Threw(<<"HTTP ">> \o r.status \o <<": ">> \o r.statusText)
    ELSE IF r.body = BadJson THEN Threw(MsgJsonSyntax)
    ELSE Returned(r.body)

\* api.js:54-59  what submitFeedback makes of the fetch outcome
ApiFeedbackOutcome(r) ==
    IF r.kind = "rejected" THEN Threw(r.message)
    ELSE IF ~r.ok THEN
        LET errorData == ApiErrorData(r.body)
        IN IF errorData = Null THEN Threw(MsgNullDetail)
           ELSE IF Truthy(errorData.detail) THEN Threw(errorData.detail.value)
           ELSE Threw(MsgFeedbackGeneric)
    ELSE IF r.body = BadJson THEN Threw(MsgJsonSyntax)
    ELSE Returned(r.body)

\* ------------------------------------------------------------------- state

VARIABLES
    \* InputBox (useState)
    text, url, inputMode, includeExplanations,
    \* AnalyzePage (useState)
    result, loading, error, feedbackSubmitted,
    \* useToasts: the toast list, and how many toasts were ever created
    toasts, toastSeq,
    \* the event loop: the fetches in flight, each with the number of the
    \* analyzeContent (handleFeedback) invocation suspended on it and its JSON body
    analysisCalls, feedbackCalls,
    \* the record of the run: how many times analyzeContent was invoked, how many
    \* fetches to /analyze and to /feedback were issued, which invocation
    \* finished last and how, and which invocation stored the current result and
    \* the current error (0: none)
    nCalls, nFetch, nFeedback, lastSettled, resultBy, errorBy,
    \* the remote feedback endpoint: for each analyzeContent invocation, how many
    \* feedback calls about its result the endpoint has acknowledged
    acks,
    \* whether AnalyzePage is mounted, and how many of the timeouts that scroll
    \* to the result are pending
    mounted, scrollTimers,
    \* the clock (ms); the Toast components the container has mounted (the page
    \* specifications leave them out: there the toasts only gather in the
    \* list), one per element of toasts and in its order: isExiting, and the due time of the
    \* pending expiry timeout (none when it has fired); the pending exit
    \* timeouts (a bag: there can be several for one toast); the id the last
    \* call of removeToast was given and how many toasts it took off the list;
    \* how many times a close button was clicked
    now, views, exitTimers, lastRemoval, nClicks,
    \* StatusPage (useState): the four status fields, loading and refreshing
    \* (its toasts are in toasts: it has a useToasts of its own, and no
    \* specification runs both pages); the loadSystemInfo invocations suspended
    \* on their four calls, each with whether handleRefresh awaits it; how many
    \* were made; and which finished last, with what its four fetches came to
    modelStatus, datasetInfo, trainingDataStats, systemHealth, statusLoading, refreshing,
    loads, nLoads, lastLoad

inputVars == <<text, url, inputMode, includeExplanations>>
pageVars == <<result, loading, error, feedbackSubmitted>>
toastVars == <<toasts, toastSeq>>
analysisVars == <<analysisCalls, nCalls, nFetch, lastSettled, resultBy, errorBy>>
feedbackVars == <<feedbackCalls, nFeedback, acks>>
lifeVars == <<mounted, scrollTimers>>
timerVars == <<now, views, exitTimers, lastRemoval, nClicks>>
statusFields == <<modelStatus, datasetInfo, trainingDataStats, systemHealth>>
statusVars == <<statusFields, statusLoading, refreshing, loads, nLoads, lastLoad>>
vars == <<inputVars, pageVars, toastVars, analysisVars, feedbackVars, lifeVars, timerVars,
          statusVars>>

InputModes == { "text", "url" }
FeedbackValues == { "correct", "partially_correct", "incorrect" }
NoCall == [call |-> 0, ok |-> FALSE]
NoRemoval == [called |-> FALSE, id |-> 0, found |-> 0]
NoLoad == [load |-> 0, refresh |-> FALSE, responses |-> <<>>]

Init ==
    /\ text = <<>> /\ url = <<>> /\ inputMode = "text" /\ includeExplanations = TRUE
    /\ result = Null /\ loading = FALSE /\ error = Null /\ feedbackSubmitted = FALSE
    /\ toasts = <<>> /\ toastSeq = 0
    /\ analysisCalls = {} /\ feedbackCalls = {}
    /\ nCalls = 0 /\ nFetch = 0 /\ nFeedback = 0
    /\ lastSettled = NoCall /\ resultBy = 0 /\ errorBy = 0
    /\ acks = [a \in 1..MaxOps |-> 0]
    /\ mounted = TRUE /\ scrollTimers = 0
    /\ now = 0 /\ views = <<>> /\ exitTimers = EmptyBag /\ lastRemoval = NoRemoval /\ nClicks = 0
    \* StatusPage has mounted, and its effect has called loadSystemInfo
    /\ modelStatus = Null /\ datasetInfo = Null /\ trainingDataStats = Null
    /\ systemHealth = Null /\ statusLoading = TRUE /\ refreshing = FALSE
    /\ loads = { [load |-> 1, refresh |-> FALSE] } /\ nLoads = 1 /\ lastLoad = NoLoad

\* ---------------------------------------------------------------- useToasts

\* part_003:105  Date.now() + Math.random(), in steps of 1/IdSteps ms; random
\* is the step the fraction falls on
NewId(ms, random) == ms * IdSteps + random

\* a slip in addToast: the new toast goes to the front
addToastFirst(list, id, message, type, duration) ==
    <<[id |-> id, message |-> message, type |-> type, duration |-> duration]>> \o list

\* addToast: the new toast goes to the end of the list
addToast(list, id, message, type, duration) ==
    Append(list, [id |-> id, message |-> message, type |-> type, duration |-> duration])

\* The page specifications do not draw the ids: they follow the runs in which
\* the n-th toast gets the id n (every draw differs from those before it).
\* a slip in showInfo: the toast is not added
showInfoSilent(list, seq, message) == list

showInfo(list, seq, message) == addToast(list, seq + 1, message, "info", DefaultDuration)
showSuccess(list, seq, message) == addToast(list, seq + 1, message, "success", DefaultDuration)
showError(list, seq, message, duration) == addToast(list, seq + 1, message, "error", duration)

\* a slip in removeToast: splice(indexOf(id), 1), which takes the last toast
\* off when no toast has the id
removeToastSplice(list, id) ==
    IF \E i \in 1..Len(list) : list[i].id = id
    THEN SelectSeq(list, LAMBDA toast : toast.id # id)
    ELSE SubSeq(list, 1, Len(list) - 1)

\* removeToast: prev.filter(toast => toast.id !== id)
removeToast(list, id) == SelectSeq(list, LAMBDA toast : toast.id # id)

\* ------------------------------------------------- Toast and ToastContainer

\* the delay between isExiting and onClose
ExitDelay == 300

\* A Toast as it mounts: useState(false) for isExiting, and its effect has
\* started the expiry timeout (isVisible is left out: the callback that clears
\* it calls onClose in the same breath, which takes the toast off the list)
MountToast(toast, t) == [isExiting |-> FALSE, timer |-> { t + toast.duration }]

\* The effect of a mounted Toast runs again: its cleanup clears the pending
\* expiry timeout and a new one starts, whether or not the Toast is exiting
RestartTimer(view, toast, t) == [view EXCEPT !.timer = { t + toast.duration }]

\* ToastContainer renders list at time t over the Toasts it has mounted (their
\* toasts are a prefix of list).  Every render hands each Toast a new onClose
\* function, so the effect of every mounted Toast runs again; the toasts new
\* to the list mount.
Rendered(mountedViews, list, t) ==
    [i \in 1..Len(list) |->
        IF i <= Len(mountedViews) THEN RestartTimer(mountedViews[i], list[i], t)
        ELSE MountToast(list[i], t)]

\* The Toasts that stay mounted when removeToast(id) takes the toasts with
\* that id off the list (the others unmount, and their cleanup clears their
\* expiry timeout)
KeptViews(mountedViews, list, id) ==
    LET kept == SelectSeq([i \in 1..Len(list) |-> i], LAMBDA i : list[i].id # id)
    IN [k \in 1..Len(kept) |-> mountedViews[kept[k]]]

\* What a caller can hand to addToast, the fraction it can draw, and the
\* stretches of time that pass between two events
ToastMessages == { <<"x">> }
ToastTypes == { "info" }
Durations == { 200, 400 }
Randoms == 0..(IdSteps - 1)
Delays == { 100 }

\* the due times of all pending timeouts
PendingDues ==
    UNION { views[i].timer : i \in 1..Len(views) } \cup { t.due : t \in BagToSet(exitTimers) }

\* addToast(message, type, duration) called at the present instant:
\* setToasts renders AnalyzePage and with it the container
Notify(message, type, duration, random) ==
    /\ mounted
    /\ toastSeq + nClicks < MaxToastOps
    /\ toasts' = addToast(toasts, NewId(now, random), message, type, duration)
    /\ toastSeq' = toastSeq + 1
    /\ views' = Rendered(views, toasts', now)
    /\ UNCHANGED <<statusVars, inputVars, pageVars, analysisVars, feedbackVars, lifeVars,
                   now, exitTimers, lastRemoval, nClicks>>

\* The close button of the i-th Toast (rendered as long as the Toast is
\* mounted, exiting or not): setIsExiting(true) and an exit timeout
CloseClick(i) ==
    /\ i \in 1..Len(views)
    /\ toastSeq + nClicks < MaxToastOps
    /\ nClicks' = nClicks + 1
    /\ views' = [views EXCEPT ![i].isExiting = TRUE]
    /\ exitTimers' = exitTimers (+) SetToBag({ [id |-> toasts[i].id, due |-> now + ExitDelay] })
    /\ UNCHANGED <<statusVars, inputVars, pageVars, toastVars, analysisVars, feedbackVars, lifeVars,
                   now, lastRemoval>>

\* The expiry timeout of the i-th Toast fires: setIsExiting(true) and an exit
\* timeout
Expire(i) ==
    /\ i \in 1..Len(views)
    /\ \E due \in views[i].timer : due <= now
    /\ views' = [views EXCEPT ![i].isExiting = TRUE, ![i].timer = {}]
    /\ exitTimers' = exitTimers (+) SetToBag({ [id |-> toasts[i].id, due |-> now + ExitDelay] })
    /\ UNCHANGED <<statusVars, inputVars, pageVars, toastVars, analysisVars, feedbackVars, lifeVars,
                   now, lastRemoval, nClicks>>

\* The exit timeout t fires: setIsVisible(false) and onClose(), which is
\* removeToast(id) of the toast the timeout was set for.  setToasts stores a
\* new array whether or not the filter dropped anything, so AnalyzePage
\* renders.  Once the page is unmounted its setters are dropped.
ExitFire(t) ==
    /\ BagIn(t, exitTimers)
    /\ t.due <= now
    /\ exitTimers' = exitTimers (-) SetToBag({ t })
    /\ IF mounted
       THEN /\ toasts' = removeToast(toasts, t.id)
            /\ views' = Rendered(KeptViews(views, toasts, t.id), toasts', now)
            /\ lastRemoval' = [called |-> TRUE, id |-> t.id,
                               found |-> Len(toasts) - Len(toasts')]
       ELSE UNCHANGED <<toasts, views, lastRemoval>>
    /\ UNCHANGED <<statusVars, inputVars, pageVars, toastSeq, analysisVars, feedbackVars, lifeVars, now, nClicks>>

\* Time passes.  A timeout fires when it is due: time does not pass it by.
Tick(d) ==
    /\ now + d <= MaxTime
    /\ \A due \in PendingDues : now + d <= due
    /\ now' = now + d
    /\ UNCHANGED <<statusVars, inputVars, pageVars, toastVars, analysisVars, feedbackVars, lifeVars,
                   views, exitTimers, lastRemoval, nClicks>>

\* ----------------------------------------------------------------- InputBox

SetText(s) ==
    /\ inputMode = "text"
    /\ text' = s
    /\ UNCHANGED <<statusVars, url, inputMode, includeExplanations, pageVars, toastVars,
                   analysisVars, feedbackVars, lifeVars, timerVars>>

SetUrl(s) ==
    /\ inputMode = "url"
    /\ url' = s
    /\ UNCHANGED <<statusVars, text, inputMode, includeExplanations, pageVars, toastVars,
                   analysisVars, feedbackVars, lifeVars, timerVars>>

SetInputMode(m) ==
    /\ inputMode' = m
    /\ UNCHANGED <<statusVars, text, url, includeExplanations, pageVars, toastVars,
                   analysisVars, feedbackVars, lifeVars, timerVars>>

SetIncludeExplanations(b) ==
    /\ includeExplanations' = b
    /\ UNCHANGED <<statusVars, text, url, inputMode, pageVars, toastVars, analysisVars, feedbackVars,
                   lifeVars, timerVars>>

canSubmit ==
    IF inputMode = "text" THEN Len(Trim(text)) > 0
    ELSE IF inputMode = "url" THEN Len(Trim(url)) > 0 /\ isValidUrl(Trim(url))
    ELSE FALSE

\* the submit button's disabled attribute
SubmitDisabled == loading \/ ~canSubmit

Options(t, u, incl) == [type |-> "object", text |-> t, url |-> u, includeExplanations |-> incl]

\* handleSubmit: whether it calls onAnalyze, and the options it hands to it
HandleSubmitCalls ==
    \/ (inputMode = "text" /\ Trim(text) # <<>>)
    \/ (inputMode = "url" /\ Trim(url) # <<>>)

\* a slip in handleSubmit: both fields go into the options, whatever the mode
HandleSubmitOptionsBoth == Options(JStr(Trim(text)), JStr(Trim(url)), includeExplanations)

HandleSubmitOptions ==
    IF inputMode = "text" /\ Trim(text) # <<>>
    THEN Options(JStr(Trim(text)), Undefined, includeExplanations)
    ELSE Options(Undefined, JStr(Trim(url)), includeExplanations)

\* --------------------------------------------------------------- AnalyzePage

\* part_000:26-27  what the try block makes of apiService.analyzeContent's
\* outcome: the value for setResult, or the Error that reaches the catch block
\* (reading a property of null throws a TypeError)
PickResult(data) == Or(Or(data.text_analysis, data.url_analysis), data)

AnalyzeTry(outcome) ==
    IF outcome.threw THEN outcome
    ELSE IF outcome.value = Null THEN Threw(MsgNullTextAnalysis)
    ELSE Returned(PickResult(outcome.value))

\* part_000:41  err.message || 'Analysis failed. Please try again.'
CatchMessage(message) == IF message # <<>> THEN message ELSE MsgAnalysisFailedDefault

\* part_000:43  the error toast of analyzeContent
AnalysisErrorToast(list, seq, errorMsg) ==
    showError(list, seq, MsgAnalysisFailedPrefix \o errorMsg, AnalysisErrorDuration)

\* a slip in analyzeContent: setError(null) is left out
analyzeContentStale(options) ==
    /\ nCalls + nFeedback < MaxOps
    /\ LET call == nCalls + 1
           withInfo == showInfo(toasts, toastSeq, MsgAnalyzing)
           errorMsg == CatchMessage(MsgEitherTextOrUrl)
       IN /\ nCalls' = call
          /\ result' = Null
          /\ feedbackSubmitted' = FALSE
          /\ resultBy' = 0
          /\ IF ApiRejectsOptions(options)
             THEN /\ error' = JStr(errorMsg)
                  /\ loading' = FALSE
                  /\ toasts' = AnalysisErrorToast(withInfo, toastSeq + 1, errorMsg)
                  /\ toastSeq' = toastSeq + 2
                  /\ lastSettled' = [call |-> call, ok |-> FALSE]
                  /\ errorBy' = call
                  /\ UNCHANGED <<nFetch, analysisCalls>>
             ELSE /\ error' = error
                  /\ loading' = TRUE
                  /\ toasts' = withInfo
                  /\ toastSeq' = toastSeq + 1
                  /\ nFetch' = nFetch + 1
                  /\ analysisCalls' = analysisCalls
                        \cup { [call |-> call, body |-> ApiAnalyzeBody(options)] }
                  /\ errorBy' = 0
                  /\ UNCHANGED lastSettled
    /\ UNCHANGED <<statusVars, inputVars, feedbackVars, lifeVars, timerVars>>

\* analyzeContent(options), up to its await, and through its catch and finally
\* when apiService.analyzeContent throws before it fetches: the rejection is
\* handled in a microtask, before any other event.
analyzeContent(options) ==
    /\ nCalls + nFeedback < MaxOps
    /\ LET call == nCalls + 1
           withInfo == showInfo(toasts, toastSeq, MsgAnalyzing)
           errorMsg == CatchMessage(MsgEitherTextOrUrl)
       IN /\ nCalls' = call
          /\ result' = Null
          /\ feedbackSubmitted' = FALSE
          /\ resultBy' = 0
          /\ IF ApiRejectsOptions(options)
             THEN /\ error' = JStr(errorMsg)
                  /\ loading' = FALSE
                  /\ toasts' = AnalysisErrorToast(withInfo, toastSeq + 1, errorMsg)
                  /\ toastSeq' = toastSeq + 2
                  /\ lastSettled' = [call |-> call, ok |-> FALSE]
                  /\ errorBy' = call
                  /\ UNCHANGED <<nFetch, analysisCalls>>
             ELSE /\ error' = Null
                  /\ loading' = TRUE
                  /\ toasts' = withInfo
                  /\ toastSeq' = toastSeq + 1
                  /\ nFetch' = nFetch + 1
                  /\ analysisCalls' = analysisCalls
                        \cup { [call |-> call, body |-> ApiAnalyzeBody(options)] }
                  /\ errorBy' = 0
                  /\ UNCHANGED lastSettled
    /\ UNCHANGED <<statusVars, inputVars, feedbackVars, lifeVars, timerVars>>

\* a slip in analyzeContent: setLoading(false) ends the try block, and there is
\* no finally
AnalyzeSettleNoFinally(p, r) ==
    /\ p \in analysisCalls
    /\ analysisCalls' = analysisCalls \ { p }
    /\ LET outcome == AnalyzeTry(ApiAnalyzeOutcome(r))
           errorMsg == CatchMessage(outcome.message)
       IN /\ lastSettled' = [call |-> p.call, ok |-> ~outcome.threw]
          /\ scrollTimers' = IF outcome.threw THEN scrollTimers ELSE scrollTimers + 1
          /\ IF ~mounted
             THEN UNCHANGED <<result, resultBy, error, errorBy, loading, toastVars>>
             ELSE /\ IF ~outcome.threw
                     THEN /\ result' = outcome.value
                          /\ resultBy' = p.call
                          /\ toasts' = showSuccess(toasts, toastSeq, MsgAnalysisDone)
                          /\ UNCHANGED <<error, errorBy>>
                     ELSE /\ error' = JStr(errorMsg)
                          /\ errorBy' = p.call
                          /\ toasts' = AnalysisErrorToast(toasts, toastSeq, errorMsg)
                          /\ UNCHANGED <<result, resultBy>>
                  /\ toastSeq' = toastSeq + 1
                  /\ loading' = (outcome.threw /\ loading)
    /\ UNCHANGED <<statusVars, inputVars, feedbackSubmitted, nCalls, nFetch, feedbackVars,
                   mounted, timerVars>>

\* The fetch of the pending invocation p finishes with r, and analyzeContent
\* resumes: the rest of its try block, or its catch block, and its finally.
\* Once AnalyzePage is unmounted its state is gone and React drops what its
\* setters are given; the timeout of the try block is set all the same.
AnalyzeSettle(p, r) ==
    /\ p \in analysisCalls
    /\ analysisCalls' = analysisCalls \ { p }
    /\ LET outcome == AnalyzeTry(ApiAnalyzeOutcome(r))
           errorMsg == CatchMessage(outcome.message)
       IN /\ lastSettled' = [call |-> p.call, ok |-> ~outcome.threw]
          /\ scrollTimers' = IF outcome.threw THEN scrollTimers ELSE scrollTimers + 1
          /\ IF ~mounted
             THEN UNCHANGED <<result, resultBy, error, errorBy, loading, toastVars>>
             ELSE /\ IF ~outcome.threw
                     THEN /\ result' = outcome.value
                          /\ resultBy' = p.call
                          /\ toasts' = showSuccess(toasts, toastSeq, MsgAnalysisDone)
                          /\ UNCHANGED <<error, errorBy>>
                     ELSE /\ error' = JStr(errorMsg)
                          /\ errorBy' = p.call
                          /\ toasts' = AnalysisErrorToast(toasts, toastSeq, errorMsg)
                          /\ UNCHANGED <<result, resultBy>>
                  /\ toastSeq' = toastSeq + 1
                  /\ loading' = FALSE
    /\ UNCHANGED <<statusVars, inputVars, feedbackSubmitted, nCalls, nFetch, feedbackVars,
                   mounted, timerVars>>

\* The timeout of the try block fires: resultRef.current?.scrollIntoView(...)
\* (the ref is null once the page is unmounted)
ScrollFire ==
    /\ scrollTimers > 0
    /\ scrollTimers' = scrollTimers - 1
    /\ UNCHANGED <<statusVars, inputVars, pageVars, toastVars, analysisVars, feedbackVars,
                   mounted, timerVars>>

\* The submit button: clickable unless disabled
ClickAnalyze ==
    /\ ~SubmitDisabled
    /\ IF HandleSubmitCalls THEN analyzeContent(HandleSubmitOptions) ELSE UNCHANGED vars

\* Ctrl+Enter in the text area or the URL field: handleKeyPress calls handleSubmit
CtrlEnter ==
    IF HandleSubmitCalls THEN analyzeContent(HandleSubmitOptions) ELSE UNCHANGED vars

\* ResultCard renders its feedback buttons when result is set and feedback is
\* not yet submitted
FeedbackButtonsShown == Truthy(result) /\ ~feedbackSubmitted

\* A feedback button: ResultCard.handleFeedback, then AnalyzePage.handleFeedback up
\* to its await (analysis_id is a timestamp nothing reads; `analysis` records
\* which analyzeContent invocation the rated result came from)
ClickFeedback(feedback) ==
    /\ FeedbackButtonsShown
    /\ nCalls + nFeedback < MaxOps
    /\ nFeedback' = nFeedback + 1
    /\ feedbackCalls' = feedbackCalls \cup
            { [call |-> nFeedback + 1, analysis |-> resultBy,
               body |-> [text |-> result.input_summary, user_feedback |-> feedback]] }
    /\ UNCHANGED <<statusVars, inputVars, pageVars, toastVars, analysisVars, acks, lifeVars, timerVars>>

\* a slip in handleFeedback: its catch block calls setError with the message
\* of its toast
FeedbackSettleSetsError(p, r) ==
    /\ p \in feedbackCalls
    /\ feedbackCalls' = feedbackCalls \ { p }
    /\ LET outcome == ApiFeedbackOutcome(r)
       IN /\ acks' = IF outcome.threw THEN acks ELSE [acks EXCEPT ![p.analysis] = @ + 1]
          /\ IF ~mounted
             THEN UNCHANGED <<feedbackSubmitted, toastVars, error>>
             ELSE /\ IF ~outcome.threw
                     THEN /\ feedbackSubmitted' = TRUE
                          /\ toasts' = showSuccess(toasts, toastSeq, MsgFeedbackThanks)
                          /\ UNCHANGED error
                     ELSE /\ toasts' = showError(toasts, toastSeq, MsgFeedbackFailed,
                                                 DefaultDuration)
                          /\ error' = JStr(MsgFeedbackFailed)
                          /\ UNCHANGED feedbackSubmitted
                  /\ toastSeq' = toastSeq + 1
    /\ UNCHANGED <<statusVars, inputVars, result, loading, analysisVars, nFeedback,
                   lifeVars, timerVars>>

\* The fetch of the pending feedback invocation p finishes with r, and
\* handleFeedback resumes (its setters are dropped once the page is unmounted)
FeedbackSettle(p, r) ==
    /\ p \in feedbackCalls
    /\ feedbackCalls' = feedbackCalls \ { p }
    /\ LET outcome == ApiFeedbackOutcome(r)
       IN /\ acks' = IF outcome.threw THEN acks ELSE [acks EXCEPT ![p.analysis] = @ + 1]
          /\ IF ~mounted
             THEN UNCHANGED <<feedbackSubmitted, toastVars>>
             ELSE /\ IF ~outcome.threw
                     THEN /\ feedbackSubmitted' = TRUE
                          /\ toasts' = showSuccess(toasts, toastSeq, MsgFeedbackThanks)
                     ELSE /\ toasts' = showError(toasts, toastSeq, MsgFeedbackFailed,
                                                 DefaultDuration)
                          /\ UNCHANGED feedbackSubmitted
                  /\ toastSeq' = toastSeq + 1
    /\ UNCHANGED <<statusVars, inputVars, result, loading, error, analysisVars, nFeedback,
                   lifeVars, timerVars>>

\* The user follows a Link of Header to another route: AnalyzePage unmounts,
\* and its Toasts with it (the cleanup of each Toast's effect clears its expiry
\* timeout).  Nothing else is cancelled: the fetches in flight and the exit
\* and scroll timeouts stay pending.  The page variables keep the values the
\* discarded state had.
Unmount ==
    /\ mounted
    /\ mounted' = FALSE
    /\ views' = <<>>
    /\ UNCHANGED <<statusVars, inputVars, pageVars, toastVars, analysisVars, feedbackVars,
                   scrollTimers, now, exitTimers, lastRemoval, nClicks>>

\* ---------------------------------------------------------------- StatusPage

MsgRefreshing == <<"Refreshing system status...">>
MsgRefreshed == <<"System status refreshed successfully!">>
MsgRefreshFailed == <<"Failed to refresh system status">>
MsgModelStatusFailed == <<"Failed to get model status">>
MsgDatasetInfoFailed == <<"Failed to get dataset info">>
MsgTrainingStatsFailed == <<"Failed to get training data stats">>
MsgHealthCheckFailed == <<"API health check failed">>

\* the four calls of loadSystemInfo, in the order of its array, and the message
\* each throws on a non-OK response
StatusCalls == 1..4
StatusFailMessages ==
    <<MsgModelStatusFailed, MsgDatasetInfoFailed, MsgTrainingStatsFailed, MsgHealthCheckFailed>>

\* What the fetch of a status call can come to: a failure (a rejection, a
\* non-OK response, 200 with a body that is not JSON), or 200 with one of two
\* JSON bodies.  The four calls of one load go to the same server at the same
\* moment: those that fail, fail the same way.
StatusBodyA == Obj(Undefined, Undefined, Undefined, JStr(<<"a">>), Undefined)
StatusBodyB == Obj(Undefined, Undefined, Undefined, JStr(<<"b">>), Undefined)
StatusFailures ==
    { Rejected(MsgFailedToFetch),
      Response(FALSE, <<"500">>, <<"Internal Server Error">>, EmptyObject),
      Response(TRUE, <<"200">>, <<"OK">>, BadJson) }
StatusSuccesses == { Response(TRUE, <<"200">>, <<"OK">>, b) : b \in { StatusBodyA, StatusBodyB } }
StatusResponses == UNION { [StatusCalls -> { f } \cup StatusSuccesses] : f \in StatusFailures }

\* api.js: getModelStatus, getDatasetInfo, getTrainingDataStats, healthCheck:
\* what each makes of the outcome of its fetch
ApiGetOutcome(r, failMessage) ==
    IF r.kind = "rejected" THEN Threw(r.message)
    ELSE IF ~r.ok THEN Threw(failMessage)
    ELSE IF r.body = BadJson THEN Threw(MsgJsonSyntax)
    ELSE Returned(r.body)

\* Promise.allSettled over the four calls: one outcome for each
SettledAll(rs) == [c \in StatusCalls |-> ApiGetOutcome(rs[c], StatusFailMessages[c])]

\* StatusPage.jsx:33-44  if (x.status === 'fulfilled') setX(x.value)
FieldAfter(field, settled) == IF settled.threw THEN field ELSE settled.value

\* a slip in loadSystemInfo: Promise.all in the place of Promise.allSettled,
\* and a catch block that throws the error on
LoadSystemInfoRethrows(settled) ==
    IF \E c \in StatusCalls : settled[c].threw
    THEN Threw(settled[CHOOSE c \in StatusCalls :
                    settled[c].threw /\ \A d \in StatusCalls : settled[d].threw => c <= d].message)
    ELSE Returned(Undefined)

\* How the promise of loadSystemInfo ends: allSettled does not reject and the
\* setters do not throw, so the function returns, whatever the four outcomes
LoadSystemInfoOutcome(settled) == Returned(Undefined)

\* The Refresh button (rendered when loading is false, disabled while
\* refreshing): handleRefresh up to its await, through loadSystemInfo up to its
\* await
handleRefresh ==
    /\ ~statusLoading /\ ~refreshing
    /\ nLoads <= MaxRefresh
    /\ refreshing' = TRUE
    /\ toasts' = showInfo(toasts, toastSeq, MsgRefreshing)
    /\ toastSeq' = toastSeq + 1
    /\ statusLoading' = TRUE
    /\ nLoads' = nLoads + 1
    /\ loads' = loads \cup { [load |-> nLoads + 1, refresh |-> TRUE] }
    /\ UNCHANGED <<inputVars, pageVars, analysisVars, feedbackVars, lifeVars, timerVars,
                   statusFields, lastLoad>>

\* The four calls of the pending loadSystemInfo invocation p have settled, with
\* the fetch outcomes rs: loadSystemInfo resumes, and after it handleRefresh
\* when it was the caller
LoadSettle(p, rs) ==
    /\ p \in loads
    /\ loads' = loads \ { p }
    /\ LET settled == SettledAll(rs)
           outcome == LoadSystemInfoOutcome(settled)
       IN /\ modelStatus' = FieldAfter(modelStatus, settled[1])
          /\ datasetInfo' = FieldAfter(datasetInfo, settled[2])
          /\ trainingDataStats' = FieldAfter(trainingDataStats, settled[3])
          /\ systemHealth' = FieldAfter(systemHealth, settled[4])
          /\ statusLoading' = FALSE
          /\ lastLoad' = [load |-> p.load, refresh |-> p.refresh, responses |-> rs]
          /\ IF p.refresh
             THEN /\ toasts' = (IF outcome.threw
                                THEN showError(toasts, toastSeq, MsgRefreshFailed, DefaultDuration)
                                ELSE showSuccess(toasts, toastSeq, MsgRefreshed))
                  /\ toastSeq' = toastSeq + 1
                  /\ refreshing' = FALSE
             ELSE UNCHANGED <<toastVars, refreshing>>
    /\ UNCHANGED <<inputVars, pageVars, analysisVars, feedbackVars, lifeVars, timerVars, nLoads>>

\* ------------------------------------------------------------ specifications

SetTextStep == \E s \in TextInputs : SetText(s)
SetUrlStep == \E s \in UrlInputs : SetUrl(s)
SetInputModeStep == \E m \in InputModes : SetInputMode(m)
SetIncludeExplanationsStep == \E b \in BOOLEAN : SetIncludeExplanations(b)
AnalyzeSettleStep == \E p \in analysisCalls : \E r \in AnalyzeResponses : AnalyzeSettle(p, r)
ClickFeedbackStep == \E f \in FeedbackValues : ClickFeedback(f)
FeedbackSettleStep == \E p \in feedbackCalls : \E r \in FeedbackResponses : FeedbackSettle(p, r)

\* The page as the user drives it through InputBox and ResultCard.  The toasts
\* it emits stay in the list: the Toast timers are not part of this specification.
Next ==
    \/ SetTextStep
    \/ SetUrlStep
    \/ SetInputModeStep
    \/ SetIncludeExplanationsStep
    \/ ClickAnalyze
    \/ CtrlEnter
    \/ AnalyzeSettleStep
    \/ ClickFeedbackStep
    \/ FeedbackSettleStep

Spec == Init /\ [][Next]_vars

\* The page driven with the mouse alone: no Ctrl+Enter
ButtonNext ==
    \/ SetTextStep
    \/ SetUrlStep
    \/ SetInputModeStep
    \/ SetIncludeExplanationsStep
    \/ ClickAnalyze
    \/ AnalyzeSettleStep
    \/ ClickFeedbackStep
    \/ FeedbackSettleStep

ButtonSpec == Init /\ [][ButtonNext]_vars

\* InputBox and the analyses it starts, by button and by Ctrl+Enter, without
\* the feedback buttons of ResultCard
InputNext ==
    \/ SetTextStep
    \/ SetUrlStep
    \/ SetInputModeStep
    \/ SetIncludeExplanationsStep
    \/ (nCalls < MaxSubmits /\ ClickAnalyze)
    \/ (nCalls < MaxSubmits /\ CtrlEnter)
    \/ AnalyzeSettleStep

InputSpec == Init /\ [][InputNext]_vars

\* The controller driven directly: analyzeContent called with any options
\* object (text and url each absent, empty or set), as the core's submit(request)
IsPopulated(v) == v.type = "string" /\ Len(v.value) > 0
RequestOptions ==
    { Options(t, u, incl) :
        t \in { Undefined, JStr(<<>>), JStr(<<"x">>) },
        u \in { Undefined, JStr(<<>>), JStr(<<"x", ":", "x">>) },
        incl \in BOOLEAN }
NeitherTextNorUrl(o) == ~IsPopulated(o.text) /\ ~IsPopulated(o.url)

SubmitStep == \E o \in RequestOptions : analyzeContent(o)

ControllerNext ==
    \/ SubmitStep
    \/ AnalyzeSettleStep
    \/ ClickFeedbackStep
    \/ FeedbackSettleStep

ControllerSpec == Init /\ [][ControllerNext]_vars

\* The analyses of the controller alone, with a remote service that answers
\* every request sooner or later (or whose fetch fails sooner or later)
AnalysisNext ==
    \/ (nCalls < MaxFairOps /\ SubmitStep)
    \/ AnalyzeSettleStep

FairAnalysisSpec == Init /\ [][AnalysisNext]_vars /\ WF_vars(AnalyzeSettleStep)

\* The page with its teardown: the user types, analyses and rates with the
\* mouse and then leaves the page, with fetches and timeouts still pending
TeardownNext ==
    \/ (mounted /\ SetTextStep)
    \/ (mounted /\ ClickAnalyze)
    \/ AnalyzeSettleStep
    \/ (mounted /\ ClickFeedbackStep)
    \/ FeedbackSettleStep
    \/ ScrollFire
    \/ Unmount

TeardownSpec == Init /\ [][TeardownNext]_vars

\* The toasts of a mounted page: addToast called at any time with any
\* message, type and duration, the close buttons, the timeouts and the clock.
\* AnalyzePage renders when addToast or removeToast stores a new list; its
\* other state changes only in handlers that also call addToast.
NotifyStep ==
    \E m \in ToastMessages : \E ty \in ToastTypes : \E d \in Durations : \E rnd \in Randoms :
        Notify(m, ty, d, rnd)
CloseClickStep == \E i \in 1..Len(views) : CloseClick(i)
ExpireStep == \E i \in 1..Len(views) : Expire(i)
ExitFireStep == \E t \in BagToSet(exitTimers) : ExitFire(t)
TickStep == \E d \in Delays : Tick(d)

ToastNext ==
    \/ NotifyStep
    \/ CloseClickStep
    \/ ExpireStep
    \/ ExitFireStep
    \/ TickStep

ToastSpec == Init /\ [][ToastNext]_vars

\* The toasts of a page that the user leaves at some moment: the Toasts
\* unmount with the page, with timeouts still pending
ToastTeardownNext ==
    \/ NotifyStep
    \/ CloseClickStep
    \/ ExpireStep
    \/ ExitFireStep
    \/ TickStep
    \/ Unmount

ToastTeardownSpec == Init /\ [][ToastTeardownNext]_vars

\* StatusPage from its mounting on: the load of its effect, and the Refresh
\* button
LoadSettleStep == \E p \in loads : \E rs \in StatusResponses : LoadSettle(p, rs)

StatusNext ==
    \/ handleRefresh
    \/ LoadSettleStep

StatusSpec == Init /\ [][StatusNext]_vars

\* -------------------------------------------------------------------- claims

\* A fetch outcome that is a failure of the remote call, and one that carries an
\* analysis payload
IsFailureResponse(r) == r.kind = "rejected" \/ ~r.ok
IsPayloadResponse(r) == r.kind = "response" /\ r.ok /\ r.body \in Payloads

\* list2 is list1 with exactly one toast of the given type appended
OneToastAdded(list1, list2, type) ==
    /\ Len(list2) = Len(list1) + 1
    /\ SubSeq(list2, 1, Len(list1)) = list1
    /\ list2[Len(list2)].type = type

\* C1: at most one analysis remote call (fetch to /analyze) is pending at any
\* time, whatever the user does and in whatever order the calls finish.
C1_AtMostOnePendingAnalysis == Cardinality(analysisCalls) <= 1

\* C2: an analyzeContent invocation made while loading is true issues no fetch
\* and leaves result, error, feedbackSubmitted and the toast list as they were.
C2_SubmitWhileLoadingRejected ==
    [][(loading /\ nCalls' = nCalls + 1) =>
        (nFetch' = nFetch /\ UNCHANGED <<result, error, feedbackSubmitted, toasts>>)]_vars

\* C3: result is set only when the page is not loading and error is null, and
\* error is set only when the page is not loading and result is null; the two
\* are never set together.
C3_ResultAndErrorExclusive ==
    /\ (result # Null => (~loading /\ error = Null))
    /\ (error # Null => (~loading /\ result = Null))

\* C4: whenever an analyzeContent invocation finishes with success,
\* feedbackSubmitted is false afterwards.
C4_SuccessLeavesFeedbackUnsubmitted ==
    [][(lastSettled' # lastSettled /\ lastSettled'.ok) => (feedbackSubmitted' = FALSE)]_vars

\* C5: once every analyzeContent invocation has finished, the result and the
\* error on the page were stored by the invocation that finished last and by no
\* other (two invocations can both have stored one only if they overlapped:
\* each invocation clears both when it starts).
C5_LastCompletionWins ==
    (analysisCalls = {} /\ lastSettled.call # 0) =>
        (resultBy \in { 0, lastSettled.call } /\ errorBy \in { 0, lastSettled.call })

\* C6: when the fetch of an invocation fails (rejected, or a non-OK response),
\* the invocation ends with loading false, result null, error a non-empty
\* message that contains the body's detail when it has one, and exactly one
\* error toast added.
C6_RemoteFailureEndsFailed ==
    [][\A p \in analysisCalls : \A r \in AnalyzeResponses :
        (IsFailureResponse(r) /\ AnalyzeSettle(p, r)) =>
            /\ loading' = FALSE
            /\ result' = Null
            /\ error'.type = "string" /\ error'.value # <<>>
            /\ (r.kind = "response" /\ r.body.type = "object" /\ IsPopulated(r.body.detail)
                    => Includes(error'.value, r.body.detail.value))
            /\ OneToastAdded(toasts, toasts', "error")]_vars

\* C7: an analyzeContent invocation whose options have neither text nor url
\* ends with loading false, result null and the error "Either text or URL must
\* be provided", and issues no fetch.
C7_EmptyRequestFailsWithoutFetch ==
    [][(nCalls' = nCalls + 1) => \A o \in RequestOptions :
        (NeitherTextNorUrl(o) /\ analyzeContent(o)) =>
            /\ loading' = FALSE
            /\ result' = Null
            /\ error' = JStr(MsgEitherTextOrUrl)
            /\ nFetch' = nFetch
            /\ analysisCalls' = analysisCalls
            /\ toasts'[Len(toasts')].type = "error"]_vars

\* C7's case: an invocation was just turned down with the request error, and
\* no fetch was issued for it
C7_Witness ==
    /\ lastSettled.call = nCalls /\ nCalls > 0 /\ ~lastSettled.ok
    /\ error = JStr(MsgEitherTextOrUrl)
    /\ nFetch < nCalls
    /\ ~loading /\ result = Null

\* C8: every request in flight to /analyze has text or a url, and its url, when
\* it has one, is well formed.
C8_InvalidInputNeverFetched ==
    \A p \in analysisCalls :
        /\ IsPopulated(p.body.text) \/ IsPopulated(p.body.url)
        /\ IsPopulated(p.body.url) => isValidUrl(p.body.url.value)

\* C9: when the fetch of an invocation returns an analysis payload, the
\* invocation ends with loading false, error null, result the payload's
\* text_analysis or url_analysis part when it has one and else the payload, and
\* exactly one success toast added.
C9_PayloadEndsSucceeded ==
    [][\A p \in analysisCalls : \A r \in AnalyzeResponses :
        (IsPayloadResponse(r) /\ AnalyzeSettle(p, r)) =>
            /\ loading' = FALSE
            /\ error' = Null
            /\ result' = (IF r.body.text_analysis.type = "object" THEN r.body.text_analysis
                          ELSE IF r.body.url_analysis.type = "object" THEN r.body.url_analysis
                          ELSE r.body)
            /\ OneToastAdded(toasts, toasts', "success")]_vars

\* C10: a feedback call is issued only when the page shows a successful
\* analysis whose feedback is neither submitted nor being submitted.
C10_FeedbackOnlyWhenIdle ==
    [][(nFeedback' = nFeedback + 1) =>
        (~loading /\ result # Null /\ error = Null /\ ~feedbackSubmitted
         /\ feedbackCalls = {})]_vars

\* C11: once feedbackSubmitted is true no feedback call is issued, and the
\* feedback endpoint acknowledges at most one feedback call for the result of
\* any one analyzeContent invocation.
C11_AtMostOneAckPerAnalysis ==
    [][/\ (nFeedback' = nFeedback + 1) => ~feedbackSubmitted
       /\ \A a \in DOMAIN acks : acks'[a] <= 1]_vars

\* The status of the analysis: in flight while an analyzeContent invocation is
\* suspended on its fetch, and else idle, succeeded or failed as the invocation
\* that finished last (none yet, with success, with failure)
StatusSucceeded == analysisCalls = {} /\ lastSettled.call # 0 /\ lastSettled.ok

\* C12: a feedback call is issued only when the status is succeeded: in every
\* other status (idle, in flight, failed) no step issues one.
C12_FeedbackOnlyWhenSucceeded ==
    [][(nFeedback' = nFeedback + 1) => StatusSucceeded]_vars

\* C13: when the fetch of a feedback call fails (rejected, or a non-OK
\* response), handleFeedback ends with feedbackSubmitted false, exactly one
\* error toast added and the analysis state untouched, and the feedback
\* buttons of the rated result, if it is still on the page, are shown again.
C13_FeedbackFailureAllowsRetry ==
    [][\A p \in feedbackCalls : \A r \in FeedbackResponses :
        (IsFailureResponse(r) /\ FeedbackSettle(p, r)) =>
            /\ feedbackSubmitted' = FALSE
            /\ OneToastAdded(toasts, toasts', "error")
            /\ UNCHANGED <<result, loading, error>>
            /\ (p.analysis = resultBy => FeedbackButtonsShown')]_vars

\* C14: once AnalyzePage is unmounted, an analyzeContent or handleFeedback
\* invocation that resumes changes no page state, adds no toast and sets no
\* timeout.
C14_SilentAfterTeardown ==
    [][(~mounted /\ (analysisCalls' # analysisCalls \/ feedbackCalls' # feedbackCalls)) =>
        /\ UNCHANGED <<result, loading, error, feedbackSubmitted>>
        /\ UNCHANGED <<toasts, views>>
        /\ scrollTimers' <= scrollTimers
        /\ UNCHANGED exitTimers]_vars

\* the instant (ms) at which addToast made the toast
Created(toast) == toast.id \div IdSteps

\* C15: a toast goes from visible (in the list, not exiting) to exiting to
\* removed and no other way: a visible toast stays in the list, an exiting
\* toast does not become visible again, and what enters the list is a toast
\* made at this instant, visible, at the end.
C15_PhaseOrder ==
    [][/\ \A i \in 1..Len(toasts) :
            ~views[i].isExiting => \E j \in 1..Len(toasts') : toasts'[j] = toasts[i]
       /\ (Len(toasts') >= Len(toasts)) =>
            \A i \in 1..Len(toasts) :
                toasts'[i] = toasts[i] /\ (views[i].isExiting => views'[i].isExiting)
       /\ (Len(toasts') < Len(toasts)) =>
            \A j \in 1..Len(toasts') : \E i \in 1..Len(toasts) :
                toasts[i] = toasts'[j] /\ views'[j].isExiting = views[i].isExiting
       /\ (Len(toasts') > Len(toasts)) =>
            /\ Len(toasts') = Len(toasts) + 1
            /\ ~views'[Len(toasts')].isExiting
            /\ Created(toasts'[Len(toasts')]) = now]_vars

\* C16: a toast made with duration d is off the list once d + 300 ms have
\* passed since it was made.
C16_GoneAfterDuration ==
    \A i \in 1..Len(toasts) : now <= Created(toasts[i]) + toasts[i].duration + ExitDelay

\* C17: the close button of a toast that is already exiting does nothing: no
\* further exit timeout, no change of the list or of the Toasts.
C17_DismissIdempotent ==
    [][\A i \in 1..Len(views) :
        (views[i].isExiting /\ CloseClick(i)) => UNCHANGED <<toasts, views, exitTimers>>]_vars

\* C18: removeToast called with an id that no toast of the list has leaves the
\* list as it is: same elements, same order.
C18_RemoveUnknownIsNoOp ==
    [][\A t \in BagToSet(exitTimers) :
        ((\A i \in 1..Len(toasts) : toasts[i].id # t.id) /\ ExitFire(t)) =>
            toasts' = toasts]_vars

\* C18's case: the last removeToast was given an id that no toast had, with
\* toasts on the list
C18_Witness == lastRemoval.called /\ lastRemoval.found = 0 /\ Len(toasts) > 0

\* s is t with some elements left out, the others in t's order
RECURSIVE IsSubSeq(_, _)
IsSubSeq(s, t) ==
    IF s = <<>> THEN TRUE
    ELSE IF t = <<>> THEN FALSE
    ELSE IF Head(s) = Head(t) THEN IsSubSeq(Tail(s), Tail(t))
    ELSE IsSubSeq(s, Tail(t))

C20_UniqueIds ==
    /\ \A i, j \in 1..Len(toasts) : i # j => toasts[i].id # toasts[j].id
    /\ lastRemoval.found <= 1

\* exactly one of the two fields of a request body is a non-empty string
ExactlyOnePopulated(body) == IsPopulated(body.text) # IsPopulated(body.url)

\* C21: every analyzeContent invocation that InputBox starts, in whatever
\* state of its mode and fields, issues a fetch, and the body of every fetch
\* to /analyze has exactly one of text and url: never both, never neither.
C21_ExactlyOneOfTextOrUrl ==
    [][/\ (nCalls' = nCalls + 1) =>
            /\ nFetch' = nFetch + 1
            /\ \E p \in analysisCalls' \ analysisCalls : p.call = nCalls'
       /\ \A p \in analysisCalls' : ExactlyOnePopulated(p.body)]_vars

\* C21's case: both fields of InputBox are filled in, and the request that
\* was just sent in url mode carries the url alone
C21_Witness ==
    /\ inputMode = "url" /\ Trim(text) # <<>> /\ Trim(url) # <<>>
    /\ \E p \in analysisCalls :
        p.call = nCalls /\ p.body.url = JStr(Trim(url)) /\ p.body.text = Undefined

\* the message the claims expect for a non-OK response: the detail of its body
\* when the body is an object that has one, and else one made of the status
ExpectedFailureMessage(r) ==
    IF r.body.type = "object" /\ IsPopulated(r.body.detail) THEN r.body.detail.value
    ELSE <<"HTTP ">> \o r.status \o <<": ">> \o r.statusText

\* C22: when the fetch to /analyze returns a non-OK response,
\* apiService.analyzeContent throws an Error whose message is the detail of the
\* body when it has one, and else (no detail, or a body that is not JSON) the
\* message "HTTP <status>: <statusText>"; the invocation stores that message
\* and no result.
C22_NonOkThrowsDetailOrStatus ==
    [][\A p \in analysisCalls : \A r \in AnalyzeResponses :
        (r.kind = "response" /\ ~r.ok /\ AnalyzeSettle(p, r)) =>
            /\ ApiAnalyzeOutcome(r).threw
            /\ ApiAnalyzeOutcome(r).message = ExpectedFailureMessage(r)
            /\ error' = JStr(ExpectedFailureMessage(r))
            /\ resultBy' # p.call]_vars

\* C23: analyzeContent clears result and error and sets loading before it
\* issues the fetch, so that whenever loading is true both are null; and of
\* two invocations one after the other (the second made after the first has
\* finished) the page shows the outcome of the second alone: its result and
\* no error, or its error and no result.
C23_ClearedBeforeFetch ==
    [][/\ loading' => (result' = Null /\ error' = Null)
       /\ (nFetch' = nFetch + 1) => (loading' /\ feedbackSubmitted' = FALSE)
       /\ \A p \in analysisCalls : \A r \in AnalyzeResponses :
            (p.call >= 2 /\ AnalyzeSettle(p, r)) =>
                /\ (resultBy' = p.call) # (errorBy' = p.call)
                /\ (result' # Null) = (resultBy' = p.call)
                /\ (error' # Null) = (errorBy' = p.call)]_vars

\* C23's case: after a first invocation that ended with a result, the second
\* has ended with an error, which the page now shows without the result
C23_Witness ==
    /\ lastSettled.call = 2 /\ ~lastSettled.ok /\ analysisCalls = {}
    /\ errorBy = 2 /\ result = Null
    /\ \E i \in 1..Len(toasts) : toasts[i].message = MsgAnalysisDone

\* The status the page shows, from loading, error and result
Status ==
    IF loading THEN "in_flight"
    ELSE IF error # Null THEN "failed"
    ELSE IF result # Null THEN "succeeded"
    ELSE "idle"

StatusChanges ==
    { <<"idle", "in_flight">>, <<"in_flight", "succeeded">>, <<"in_flight", "failed">>,
      <<"succeeded", "in_flight">>, <<"failed", "in_flight">> }

\* C24: the status changes only from idle to in_flight, from in_flight to
\* succeeded or failed, and from succeeded or failed to in_flight; it never
\* becomes idle again; and an analyzeContent invocation made when the status
\* is succeeded or failed makes it in_flight.
C24_StatusTransitions ==
    [][/\ Status' # Status => <<Status, Status'>> \in StatusChanges
       /\ Status' = "idle" => Status = "idle"
       /\ (nCalls' = nCalls + 1 /\ Status \in { "succeeded", "failed" }) =>
            Status' = "in_flight"]_vars

\* the toasts of analyzeContent on a list: its info toasts, and its terminal
\* toasts (the success toast, or the error toast with its prefix)
InfoToasts(list) == { i \in 1..Len(list) : list[i].type = "info" /\ list[i].message = MsgAnalyzing }
TerminalToasts(list) ==
    { i \in 1..Len(list) :
        \/ list[i].type = "success" /\ list[i].message = MsgAnalysisDone
        \/ list[i].type = "error" /\ Head(list[i].message) = Head(MsgAnalysisFailedPrefix) }

\* C25: every analyzeContent invocation that issues a fetch adds exactly one
\* info toast as it issues it, and exactly one toast when the fetch has
\* finished: a success toast if the invocation ended with a result, an error
\* toast if not.  No other step adds or removes such a toast.
C25_InfoThenTerminalToast ==
    [][/\ (nFetch' = nFetch + 1) =>
            /\ OneToastAdded(toasts, toasts', "info")
            /\ toasts'[Len(toasts')].message = MsgAnalyzing
       /\ (nCalls' = nCalls /\ analysisCalls' # analysisCalls) =>
            OneToastAdded(toasts, toasts', IF lastSettled'.ok THEN "success" ELSE "error")
       /\ (nCalls' = nCalls /\ analysisCalls' = analysisCalls) =>
            (InfoToasts(toasts') = InfoToasts(toasts)
             /\ TerminalToasts(toasts') = TerminalToasts(toasts))]_vars

\* C25's case: two invocations, both with a fetch, have finished, one with a
\* result and one with an error
C25_Witness ==
    /\ nCalls = 2 /\ nFetch = 2 /\ analysisCalls = {} /\ nFeedback = 0
    /\ Cardinality(InfoToasts(toasts)) = 2
    /\ \E i, j \in TerminalToasts(toasts) : toasts[i].type = "success" /\ toasts[j].type = "error"

\* C26: a step that adds a toast leaves every toast already on the list, and
\* its Toast (exiting or not, due time of its expiry timeout), as they were; a
\* step that removes toasts leaves those that remain as they were; and a close
\* click or an expiry changes the Toast of one toast only.
C26_IndependentExpiry ==
    [][/\ (Len(toasts') > Len(toasts)) =>
            \A i \in 1..Len(toasts) : toasts'[i] = toasts[i] /\ views'[i] = views[i]
       /\ (Len(toasts') < Len(toasts)) =>
            \A j \in 1..Len(toasts') : \E i \in 1..Len(toasts) :
                toasts[i] = toasts'[j] /\ views[i] = views'[j]
       /\ (Len(toasts') = Len(toasts)) =>
            /\ toasts' = toasts
            /\ Cardinality({ i \in 1..Len(toasts) : views'[i] # views[i] }) <= 1]_vars

\* C27: when a Toast unmounts (its toast leaves the list, or the page
\* unmounts) its pending timeouts are cancelled, the exit timeouts too: the
\* callback of an exit timeout runs only while the page is mounted and the
\* toast it was set for is on the list.
C27_NoCallbackAfterTeardown ==
    [][\A t \in BagToSet(exitTimers) :
        (exitTimers' = exitTimers (-) SetToBag({ t }) /\ exitTimers' # exitTimers) =>
            (mounted /\ \E i \in 1..Len(toasts) : toasts[i].id = t.id)]_vars

\* C28: a feedback click and the end of a feedback call, with success or
\* with failure, leave result, error and loading, and with them the status of
\* the analysis, as they were: they change feedbackSubmitted and the toast
\* list only.
C28_FeedbackLeavesAnalysisAlone ==
    [][(nFeedback' # nFeedback \/ feedbackCalls' # feedbackCalls) =>
        /\ UNCHANGED <<result, error, loading>>
        /\ Status' = Status
        /\ UNCHANGED <<analysisCalls, lastSettled, resultBy, errorBy>>
        /\ UNCHANGED inputVars]_vars

\* C28's case: a feedback call has failed and a later one has succeeded, and
\* the result they were about is on the page
C28_Witness ==
    /\ feedbackSubmitted /\ feedbackCalls = {} /\ result # Null /\ error = Null /\ ~loading
    /\ \E i, j \in 1..Len(toasts) :
        i < j /\ toasts[i].message = MsgFeedbackFailed /\ toasts[j].message = MsgFeedbackThanks

IsFulfilledResponse(r) == r.kind = "response" /\ r.ok /\ r.body # BadJson

\* C30: when the four calls of the loadSystemInfo that handleRefresh awaits
\* have settled, however each of them ended, refreshing is false and exactly
\* one toast is added, the success toast; no toast of the page is an error
\* toast; and after any loadSystemInfo each status field has the body of its
\* own call if that call fulfilled and the value it had before if not.
C30_RefreshAlwaysSucceeds ==
    [][/\ \A i \in 1..Len(toasts') : toasts'[i].type # "error"
       /\ (loads' # loads /\ nLoads' = nLoads) =>
            /\ lastLoad'.refresh =>
                /\ refreshing' = FALSE
                /\ OneToastAdded(toasts, toasts', "success")
                /\ toasts'[Len(toasts')].message = MsgRefreshed
                /\ \E i \in 1..Len(toasts) : toasts[i].message = MsgRefreshing
            /\ ~lastLoad'.refresh => UNCHANGED <<toasts, refreshing>>
            /\ \A c \in StatusCalls :
                statusFields'[c] =
                    (IF IsFulfilledResponse(lastLoad'.responses[c])
                     THEN lastLoad'.responses[c].body ELSE statusFields[c])]_vars

\* C30's case: a refresh has ended in which the first call failed and the
\* others fulfilled; the first field holds what the load before it stored
C30_Witness ==
    /\ lastLoad.refresh /\ ~IsFulfilledResponse(lastLoad.responses[1])
    /\ \A c \in 2..4 : IsFulfilledResponse(lastLoad.responses[c])
    /\ ~refreshing /\ ~statusLoading /\ loads = {}
    /\ modelStatus = StatusBodyA /\ datasetInfo = StatusBodyB
    /\ Len(toasts) = 2 /\ toasts[1].type = "info" /\ toasts[2].type = "success"

====
